---- MODULE Spec2Model ----
(***************************************************************************)
(* A model of the keeper attestation server (src/server/src):              *)
(*   - validate.rs : the three validation predicates,                      *)
(*   - lib.rs      : the post_backup request handler and its insert,       *)
(*   - api.rs      : the cursor-paginated catalog fetch,                   *)
(*   - checksum.rs : the projection, sort and digest of the catalog.       *)
(*                                                                         *)
(* Strings are sequences of code points (Rust `String`s are UTF-8; the     *)
(* inputs used here are ASCII except where noted).  An Option<T> is a      *)
(* sequence of length 0 (None) or 1 (Some).  A u64 is a little-endian      *)
(* sequence of four 16-bit limbs, so that values around 2^53 and 2^64 keep *)
(* their real width.                                                       *)
(***************************************************************************)
EXTENDS Integers, Sequences, FiniteSets, TLC

VARIABLES
    \* ---- post_backup (lib.rs) ----
    pc,              \* position of the request being handled
    body,            \* the deserialized BackupRequest
    status,          \* HTTP status of the response, 0 while none was produced
    stmt,            \* the bound parameters of the prepared INSERT
    db,              \* rows of the `backups` table, in insertion order
    accepted,        \* for each row of db, the request body it came from
    passed,          \* the validation checks that returned true for this request
    insertAttempted, \* the handler reached prepare/bind/run for this request
    db0,             \* the rows of db when the request was received
    \* ---- fetch_all_artifacts (api.rs) ----
    fpc,             \* position of the fetch loop
    cursor,          \* Option<String>: the loop's cursor
    all_artifacts,   \* the accumulated items
    requests,        \* every page request issued so far, in order
    responses,       \* every upstream reply that arrived, in order
    inflight,        \* number of page requests awaiting their reply
    fresult,         \* the value fetch_all_artifacts returned
    \* ---- compute_backup_checksum (checksum.rs) ----
    cpc,             \* position of the checksum computation
    api_response,    \* the input slice
    reordered,       \* a reordering of the same input
    digest,          \* compute_backup_checksum(api_response)
    digest2,         \* compute_backup_checksum(reordered)
    \* ---- is_valid_checksum (validate.rs) ----
    vpc,             \* position of the validation
    checksum_in,     \* the string handed to is_valid_checksum
    checksum_ok      \* what is_valid_checksum returned

avars == <<pc, body, status, stmt, db, accepted, passed, insertAttempted, db0>>
fvars == <<fpc, cursor, all_artifacts, requests, responses, inflight, fresult>>
cvars == <<cpc, api_response, reordered, digest, digest2>>
vvars == <<vpc, checksum_in, checksum_ok>>
vars == <<avars, fvars, cvars, vvars>>

----------------------------------------------------------------------------
(* Bounds of the model *)

\* requests are received while the table holds fewer rows than this
MaxRows == 2
\* format versions 0..MaxFormatVersion are submitted
MaxFormatVersion == 2

----------------------------------------------------------------------------
(* Strings and options *)

None == <<>>
Some(v) == <<v>>
IsSome(o) == Len(o) = 1

Rep(c, n) == [i \in 1..n |-> c]

\* char::is_ascii_hexdigit: '0'..'9', 'A'..'F', 'a'..'f'
is_ascii_hexdigit(c) ==
    \/ c \in 48..57
    \/ c \in 65..70
    \/ c \in 97..102

\* number of bytes of the UTF-8 encoding of code point c
Utf8Len(c) == IF c < 128 THEN 1 ELSE IF c < 2048 THEN 2 ELSE IF c < 65536 THEN 3 ELSE 4

RECURSIVE SumLen(_, _)
SumLen(s, i) == IF i > Len(s) THEN 0 ELSE Utf8Len(s[i]) + SumLen(s, i + 1)

\* str::len: the length in bytes
ByteLen(s) == SumLen(s, 1)

\* str::to_ascii_lowercase: 'A'..'Z' become 'a'..'z', all else is kept
to_ascii_lowercase(s) == [i \in 1..Len(s) |-> IF s[i] \in 65..90 THEN s[i] + 32 ELSE s[i]]

----------------------------------------------------------------------------
(* validate.rs *)

CURRENT_FORMAT_VERSION == 1
CHECKSUM_BYTES == 32

is_valid_format_version(format_version) ==
    format_version > 0 /\ format_version <= CURRENT_FORMAT_VERSION

\* Uuid::try_parse dispatches on the byte length of its input: 32 bytes are
\* the simple form, 36 the hyphenated form, 38 the hyphenated form in
\* braces, 45 the hyphenated form after "urn:uuid:".  The result is the
\* sequence of 32 hex digits, or <<>> when the input is no UUID.
UrnPrefix == <<117, 114, 110, 58, 117, 117, 105, 100, 58>>

parse_simple(s) ==
    IF \A i \in 1..Len(s) : is_ascii_hexdigit(s[i]) THEN s ELSE <<>>

parse_hyphenated(s) ==
    IF /\ \A i \in {9, 14, 19, 24} : s[i] = 45
       /\ \A i \in (1..36) \ {9, 14, 19, 24} : is_ascii_hexdigit(s[i])
    THEN SubSeq(s, 1, 8) \o SubSeq(s, 10, 13) \o SubSeq(s, 15, 18)
         \o SubSeq(s, 20, 23) \o SubSeq(s, 25, 36)
    ELSE <<>>

try_parse(s) ==
    CASE ByteLen(s) = 32 /\ Len(s) = 32 -> parse_simple(s)
      [] ByteLen(s) = 36 /\ Len(s) = 36 -> parse_hyphenated(s)
      [] ByteLen(s) = 38 /\ Len(s) = 38 /\ s[1] = 123 /\ s[38] = 125 ->
            parse_hyphenated(SubSeq(s, 2, 37))
      [] ByteLen(s) = 45 /\ Len(s) = 45 /\ SubSeq(s, 1, 9) = UrnPrefix ->
            parse_hyphenated(SubSeq(s, 10, 45))
      [] OTHER -> <<>>

\* Uuid::is_nil: all 128 bits are zero
is_nil(digits) == \A i \in 1..Len(digits) : digits[i] = 48

is_valid_keeper_id(keeper_id) ==
    LET uuid == try_parse(keeper_id)
    IN  IF uuid # <<>> THEN ~is_nil(uuid) ELSE FALSE

\* is_valid_checksum with the length check left out
is_valid_checksum_any_length(checksum) ==
    \A i \in 1..Len(checksum) : is_ascii_hexdigit(checksum[i])

is_valid_checksum(checksum) ==
    IF ByteLen(checksum) # CHECKSUM_BYTES * 2
    THEN FALSE
    ELSE \A i \in 1..Len(checksum) : is_ascii_hexdigit(checksum[i])

\* the strings validated have between 64 - MaxSlack and 64 + MaxSlack
\* characters
MaxSlack == 2

\* '/', '0', '9', ':', '@', 'A', 'F', 'G', '`', 'a', 'f', 'g', U+00E9 (two
\* bytes in UTF-8) and U+FF11, the fullwidth digit one (three bytes)
Alphabet == {47, 48, 57, 58, 64, 65, 70, 71, 96, 97, 102, 103, 233, 65297}

\* a run of one hex digit ('0', 'F' or 'a') with its first or a late character
\* replaced by one of the alphabet
ChecksumInputs ==
    { [i \in 1..n |-> IF i = p THEN c ELSE base] :
        n \in (CHECKSUM_BYTES * 2 - MaxSlack)..(CHECKSUM_BYTES * 2 + MaxSlack),
        base \in {48, 70, 97}, p \in {1, CHECKSUM_BYTES * 2 - MaxSlack}, c \in Alphabet }

VInit ==
    /\ vpc = "start"
    /\ checksum_in \in ChecksumInputs
    /\ checksum_ok = FALSE

VIdle ==
    /\ vpc = "idle"
    /\ checksum_in = <<>>
    /\ checksum_ok = FALSE

\* is_valid_checksum is applied to the string
Validate ==
    /\ vpc = "start"
    /\ checksum_ok' = is_valid_checksum(checksum_in)
    /\ vpc' = "done"
    /\ UNCHANGED checksum_in
    /\ UNCHANGED <<avars, fvars, cvars>>

\* the code points of the ASCII hex digits: 0-9, A-F, a-f
HexDigits == (48..57) \cup (65..70) \cup (97..102)

\* C9: is_valid_checksum(s) is true iff s has exactly 64 characters and each
\* of them is an ASCII hex digit of either case.
C9_ValidChecksumIff64HexChars ==
    vpc = "done" =>
        (checksum_ok <=> (/\ Len(checksum_in) = 64
                          /\ \A i \in 1..Len(checksum_in) : checksum_in[i] \in HexDigits))

\* C9 witness: a string of 64 hex digits of both cases was accepted.
C9_Witness ==
    /\ vpc = "done"
    /\ checksum_ok
    /\ Len(checksum_in) = 64
    /\ \E i, j \in 1..64 : checksum_in[i] \in 65..70 /\ checksum_in[j] \in 97..102

----------------------------------------------------------------------------
(* u64 and its conversion to f64 (lib.rs: `body.size as f64`) *)

LimbBase == 2 ^ 16

\* f64::MANTISSA_DIGITS
MantissaDigits == 53

RECURSIVE BitLen(_)
BitLen(x) == IF x = 0 THEN 0 ELSE 1 + BitLen(x \div 2)

\* the number of significant bits of a limb sequence
RECURSIVE Bits(_, _)
Bits(n, i) ==
    IF i = 0 THEN 0
    ELSE IF n[i] # 0 THEN 16 * (i - 1) + BitLen(n[i])
    ELSE Bits(n, i - 1)

\* add `c` (0 or 1) to the limbs from index i upward
RECURSIVE Carry(_, _, _)
Carry(n, i, c) ==
    IF i > Len(n) THEN n
    ELSE LET t == n[i] + c
         IN  Carry([n EXCEPT ![i] = t % LimbBase], i + 1, t \div LimbBase)

\* `n as f64` for n of type u64: round to nearest, ties to even, keeping
\* `digits` significant bits.  The result is the exact value of the double,
\* as five limbs (u64::MAX rounds up to 2^64).  At most 64 - 53 = 11 low
\* bits are dropped, all of them in the lowest limb.
RoundTo(size, digits) ==
    LET n     == size \o <<0>>
        shift == IF Bits(size, 4) > digits THEN Bits(size, 4) - digits ELSE 0
        unit  == 2 ^ shift
        q     == n[1] \div unit
        r     == n[1] % unit
        up    == IF shift = 0 THEN 0
                 ELSE IF r * 2 > unit \/ (r * 2 = unit /\ q % 2 = 1) THEN 1
                 ELSE 0
        low   == (q + up) * unit
    IN  Carry([n EXCEPT ![1] = low % LimbBase], 2, low \div LimbBase)

\* a conversion that keeps one significant bit too few
as_f64_52(size) == RoundTo(size, MantissaDigits - 1)

as_f64(size) == RoundTo(size, MantissaDigits)

\* the exact value of a u64, in the five-limb form of a stored number
Exact(size) == size \o <<0>>

----------------------------------------------------------------------------
(* lib.rs: post_backup *)

BackupRequest(v, k, c, s, e) ==
    [format_version |-> v, keeper_id |-> k, checksum |-> c, size |-> s, email |-> e]

\* BindParams with the checksum bound as submitted
BindParams_AsSubmitted(b) ==
    [ format_version |-> b.format_version,
      keeper_id      |-> b.keeper_id,
      checksum       |-> b.checksum,
      size           |-> as_f64(b.size),
      contact        |-> IF IsSome(b.email) THEN Some(b.email[1]) ELSE None,
      contact_type   |-> IF IsSome(b.email) THEN Some("email") ELSE None ]

\* the six values bound to the INSERT, in column order
BindParams(b) ==
    [ format_version |-> b.format_version,
      keeper_id      |-> b.keeper_id,
      checksum       |-> to_ascii_lowercase(b.checksum),
      size           |-> as_f64(b.size),
      contact        |-> IF IsSome(b.email) THEN Some(b.email[1]) ELSE None,
      contact_type   |-> IF IsSome(b.email) THEN Some("email") ELSE None ]

NoBody == BackupRequest(0, <<>>, <<>>, <<0, 0, 0, 0>>, None)
NoStmt == BindParams(NoBody)

AInit ==
    /\ pc = "idle"
    /\ body = NoBody
    /\ status = 0
    /\ stmt = NoStmt
    /\ db = <<>>
    /\ accepted = <<>>
    /\ passed = {}
    /\ insertAttempted = FALSE
    /\ db0 = <<>>

(* The request bodies submitted.  serde has already typed the fields:     *)
(* format_version is a u32, size a u64, email an Option<String>.           *)

FormatVersions == 0..MaxFormatVersion

KeeperIds ==
    { \* "3fa85f64-5717-4562-b3fc-2c963f66afa6"
      <<51, 102, 97, 56, 53, 102, 54, 52, 45, 53, 55, 49, 55, 45, 52, 53, 54, 50, 45,
        98, 51, 102, 99, 45, 50, 99, 57, 54, 51, 102, 54, 54, 97, 102, 97, 54>>,
      \* "00000000-0000-0000-0000-000000000000", the nil UUID
      <<48, 48, 48, 48, 48, 48, 48, 48, 45, 48, 48, 48, 48, 45, 48, 48, 48, 48, 45,
        48, 48, 48, 48, 45, 48, 48, 48, 48, 48, 48, 48, 48, 48, 48, 48, 48>>,
      \* "123456", the keeper code of an earlier protocol revision
      <<49, 50, 51, 52, 53, 54>>,
      \* "3fa85f64-5717-4562-b3fc2-c963f66afa6", a hyphen out of place
      <<51, 102, 97, 56, 53, 102, 54, 52, 45, 53, 55, 49, 55, 45, 52, 53, 54, 50, 45,
        98, 51, 102, 99, 50, 45, 99, 57, 54, 51, 102, 54, 54, 97, 102, 97, 54>> }

\* "A9" * 32 and "a9" * 32: the same digest in uppercase and in lowercase
UpperChecksum == [i \in 1..64 |-> IF i % 2 = 0 THEN 57 ELSE 65]
LowerChecksum == [i \in 1..64 |-> IF i % 2 = 0 THEN 57 ELSE 97]

Checksums ==
    { UpperChecksum,
      LowerChecksum,
      Rep(97, 63),                                          \* one digit short
      [i \in 1..64 |-> IF i = 64 THEN 103 ELSE 97],         \* ends in "g"
      [i \in 1..63 |-> IF i = 1 THEN 233 ELSE 97] }         \* 64 bytes, starts with U+00E9

Sizes ==
    { <<65535, 65535, 65535, 31>>,        \* 2^53 - 1 = 9007199254740991
      <<1, 0, 0, 32>>,                    \* 2^53 + 1 = 9007199254740993
      <<65535, 65535, 65535, 65535>> }    \* 2^64 - 1 = u64::MAX

Emails ==
    { None,
      \* "keeper@example.org"
      Some(<<107, 101, 101, 112, 101, 114, 64, 101, 120, 97, 109, 112, 108, 101, 46,
             111, 114, 103>>) }

\* a request arrives at the handler (axum has deserialized its JSON body)
Receive ==
    /\ pc = "idle"
    /\ Len(db) < MaxRows
    /\ \E v \in FormatVersions, k \in KeeperIds, c \in Checksums, s \in Sizes, e \in Emails :
          body' = BackupRequest(v, k, c, s, e)
    /\ pc' = "received"
    /\ status' = 0
    /\ stmt' = NoStmt
    /\ passed' = {}
    /\ insertAttempted' = FALSE
    /\ db0' = db
    /\ UNCHANGED <<db, accepted>>
    /\ UNCHANGED <<fvars, cvars, vvars>>

\* lib.rs 61-64
CheckFormatVersion ==
    /\ pc = "received"
    /\ IF is_valid_format_version(body.format_version)
       THEN /\ pc' = "format-version-checked"
            /\ passed' = passed \cup {"format_version"}
            /\ status' = status
       ELSE /\ pc' = "rejected"
            /\ status' = 400
            /\ passed' = passed
    /\ UNCHANGED <<body, stmt, db, accepted, insertAttempted, db0>>
    /\ UNCHANGED <<fvars, cvars, vvars>>

\* CheckKeeperId with the early return lost: the handler goes on whatever
\* is_valid_keeper_id answered
CheckKeeperId_NoReturn ==
    /\ pc = "format-version-checked"
    /\ pc' = "keeper-id-checked"
    /\ passed' = passed \cup {"keeper_id"}
    /\ UNCHANGED <<body, status, stmt, db, accepted, insertAttempted, db0>>
    /\ UNCHANGED <<fvars, cvars, vvars>>

\* lib.rs 66-69
CheckKeeperId ==
    /\ pc = "format-version-checked"
    /\ IF is_valid_keeper_id(body.keeper_id)
       THEN /\ pc' = "keeper-id-checked"
            /\ passed' = passed \cup {"keeper_id"}
            /\ status' = status
       ELSE /\ pc' = "rejected"
            /\ status' = 400
            /\ passed' = passed
    /\ UNCHANGED <<body, stmt, db, accepted, insertAttempted, db0>>
    /\ UNCHANGED <<fvars, cvars, vvars>>

\* lib.rs 71-77
CheckChecksum ==
    /\ pc = "keeper-id-checked"
    /\ IF is_valid_checksum(body.checksum)
       THEN /\ pc' = "checksum-checked"
            /\ passed' = passed \cup {"checksum"}
            /\ status' = status
       ELSE /\ pc' = "rejected"
            /\ status' = 400
            /\ passed' = passed
    /\ UNCHANGED <<body, stmt, db, accepted, insertAttempted, db0>>
    /\ UNCHANGED <<fvars, cvars, vvars>>

\* lib.rs 79-103: prepare the statement and bind its parameters; the
\* binding's error, if any, becomes a 500
Bind ==
    /\ pc = "checksum-checked"
    /\ insertAttempted' = TRUE
    /\ \E ok \in BOOLEAN :
          IF ok
          THEN /\ stmt' = BindParams(body)
               /\ pc' = "bound"
               /\ status' = status
          ELSE /\ stmt' = stmt
               /\ pc' = "failed"
               /\ status' = 500
    /\ UNCHANGED <<body, db, accepted, passed, db0>>
    /\ UNCHANGED <<fvars, cvars, vvars>>

\* Run that skips the insert when the keeper_id and checksum are stored already
Run_Deduplicating ==
    /\ pc = "bound"
    /\ \E ok \in BOOLEAN :
          IF ok
          THEN /\ IF \E i \in 1..Len(db) : /\ db[i].keeper_id = stmt.keeper_id
                                            /\ db[i].checksum = stmt.checksum
                  THEN UNCHANGED <<db, accepted>>
                  ELSE /\ db' = Append(db, stmt)
                       /\ accepted' = Append(accepted, body)
               /\ pc' = "persisted"
               /\ status' = 204
          ELSE /\ UNCHANGED <<db, accepted>>
               /\ pc' = "failed"
               /\ status' = 500
    /\ UNCHANGED <<body, stmt, passed, insertAttempted, db0>>
    /\ UNCHANGED <<fvars, cvars, vvars>>

\* Run with the store's error dropped instead of mapped to a 500
Run_ErrorSwallowed ==
    /\ pc = "bound"
    /\ \E ok \in BOOLEAN :
          IF ok
          THEN /\ db' = Append(db, stmt)
               /\ accepted' = Append(accepted, body)
          ELSE UNCHANGED <<db, accepted>>
    /\ pc' = "persisted"
    /\ status' = 204
    /\ UNCHANGED <<body, stmt, passed, insertAttempted, db0>>
    /\ UNCHANGED <<fvars, cvars, vvars>>

\* lib.rs 104-117: run the statement; the store's error, if any, becomes a
\* 500, and success the empty 204 response
Run ==
    /\ pc = "bound"
    /\ \E ok \in BOOLEAN :
          IF ok
          THEN /\ db' = Append(db, stmt)
               /\ accepted' = Append(accepted, body)
               /\ pc' = "persisted"
               /\ status' = 204
          ELSE /\ UNCHANGED <<db, accepted>>
               /\ pc' = "failed"
               /\ status' = 500
    /\ UNCHANGED <<body, stmt, passed, insertAttempted, db0>>
    /\ UNCHANGED <<fvars, cvars, vvars>>

\* the handler has returned and the response is sent; the request's locals
\* are dropped
Respond ==
    /\ pc \in {"rejected", "failed", "persisted"}
    /\ pc' = "idle"
    /\ body' = NoBody
    /\ status' = 0
    /\ stmt' = NoStmt
    /\ passed' = {}
    /\ insertAttempted' = FALSE
    /\ db0' = db
    /\ UNCHANGED <<db, accepted>>
    /\ UNCHANGED <<fvars, cvars, vvars>>

ANext ==
    \/ Receive
    \/ CheckFormatVersion
    \/ CheckKeeperId
    \/ CheckChecksum
    \/ Bind
    \/ Run
    \/ Respond

----------------------------------------------------------------------------
(* Claims about post_backup *)

AllValid(b) ==
    /\ is_valid_format_version(b.format_version)
    /\ is_valid_keeper_id(b.keeper_id)
    /\ is_valid_checksum(b.checksum)

Terminal == {"rejected", "failed", "persisted"}

\* C1: the insert is attempted only for a request for which all three
\* validation predicates returned true; a request failing any of them never
\* reaches the insert, ends rejected, and leaves the stored rows as they were
\* when it arrived.
C1_InsertOnlyAfterAllChecks ==
    /\ insertAttempted =>
          /\ passed = {"format_version", "keeper_id", "checksum"}
          /\ AllValid(body)
    /\ pc \in {"bound", "persisted", "failed"} => insertAttempted
    /\ (pc # "idle" /\ ~AllValid(body)) =>
          /\ ~insertAttempted
          /\ db = db0
          /\ pc \in Terminal => (pc = "rejected" /\ status = 400)
    /\ db # db0 => (pc = "persisted" /\ AllValid(body))

\* C1 witness: a request with format_version = 2 was rejected while the table
\* already held a row, and the table is as it was.
C1_Witness ==
    /\ pc = "rejected"
    /\ body.format_version = 2
    /\ Len(db) = 1
    /\ db = db0

AtMostTwo53(n) == n[4] < 32 \/ (n[4] = 32 /\ n[3] = 0 /\ n[2] = 0 /\ n[1] = 0)

EqIgnoreAsciiCase(a, b) ==
    /\ Len(a) = Len(b)
    /\ \A i \in 1..Len(a) :
          \/ a[i] = b[i]
          \/ a[i] \in 65..90 /\ b[i] = a[i] + 32
          \/ b[i] \in 65..90 /\ a[i] = b[i] + 32

\* two request bodies that differ at most in the letter case of the checksum
DifferOnlyInChecksumCase(a, b) ==
    /\ a.format_version = b.format_version
    /\ a.keeper_id = b.keeper_id
    /\ a.size = b.size
    /\ a.email = b.email
    /\ EqIgnoreAsciiCase(a.checksum, b.checksum)

\* C6: every stored checksum is the submitted one in lowercase (no uppercase
\* character, equal to the submitted one up to letter case), and two accepted
\* submissions that differ only in the case of the checksum are stored as
\* identical rows.
C6_ChecksumStoredLowercase ==
    /\ \A i \in 1..Len(db) :
          /\ \A k \in 1..Len(db[i].checksum) : db[i].checksum[k] \notin 65..90
          /\ EqIgnoreAsciiCase(db[i].checksum, accepted[i].checksum)
    /\ \A i, j \in 1..Len(db) :
          DifferOnlyInChecksumCase(accepted[i], accepted[j]) => db[i] = db[j]

\* C6 witness: the same attestation was accepted once with an uppercase and
\* once with a lowercase checksum.
C6_Witness ==
    /\ Len(db) = 2
    /\ accepted[1].checksum = UpperChecksum
    /\ accepted[2].checksum = LowerChecksum
    /\ DifferOnlyInChecksumCase(accepted[1], accepted[2])

\* C8: the table is append-only and not deduplicated: no step changes or
\* removes a stored row, a step adds at most one row, and the step that ends
\* a request in success appends exactly the row bound for it, whatever the
\* table already holds.
C8_AppendOnlyNoDedup ==
    [][ /\ Len(db') \in {Len(db), Len(db) + 1}
        /\ SubSeq(db', 1, Len(db)) = db
        /\ (pc = "bound" /\ pc' = "persisted") => db' = Append(db, BindParams(body))
        /\ db' # db => (pc = "bound" /\ pc' = "persisted") ]_vars

\* C8 witness: the same attestation (same keeper_id, same checksum) was
\* accepted twice and is stored as two rows.
C8_Witness ==
    /\ Len(db) = 2
    /\ accepted[1] = accepted[2]
    /\ db[1] = db[2]

\* C7: a request that has ended has exactly one of three outcomes: 400 iff a
\* validation check failed, 500 iff all checks passed and binding or running
\* the insert failed, 204 (NoContent, no body) iff all checks passed and the
\* row was inserted; before it ends no status has been produced.
C7_ThreeOutcomes ==
    /\ pc \notin Terminal => status = 0
    /\ pc \in Terminal =>
          /\ status \in {400, 500, 204}
          /\ status = 400 <=> ~AllValid(body)
          /\ status = 500 <=> (AllValid(body) /\ insertAttempted /\ db = db0)
          /\ status = 204 <=> (AllValid(body) /\ insertAttempted
                                 /\ db = Append(db0, BindParams(body)))
          /\ status = 400 <=> pc = "rejected"
          /\ status = 500 <=> pc = "failed"
          /\ status = 204 <=> pc = "persisted"

\* C7 witness: all checks passed, the statement was bound, and running it
\* failed: the response is a 500 and nothing was written.
C7_Witness ==
    /\ pc = "failed"
    /\ status = 500
    /\ stmt # NoStmt
    /\ AllValid(body)

----------------------------------------------------------------------------
(* api.rs: the upstream records *)

FileResponse(name, hash) ==
    [ name |-> name, filename |-> "scan.pdf", media_type |-> Some("application/pdf"),
      hash |-> hash, hash_algorithm |-> "sha2-256", url |-> "https://files.example/scan.pdf",
      lang |-> None, hidden |-> FALSE ]

LinkResponse(name, url) == [name |-> name, url |-> url]

\* an ArtifactResponse; the identifier is a sequence of code points, the
\* title varies, the other fields are fixed
ArtifactResponse(id, title) ==
    [ id |-> id, title |-> title, summary |-> "summary", description |-> None,
      url |-> "https://archive.example/artifact",
      files |-> <<FileResponse("scan", "1220ab")>>,
      links |-> <<LinkResponse("source", "https://source.example")>>,
      people |-> <<"someone">>, identities |-> <<>>,
      from_year |-> 1970, to_year |-> Some(1979), decades |-> <<1970>>,
      collections |-> <<>> ]

\* identifiers "B", "a", "ab", "b"
ArtifactIds == {<<66>>, <<97>>, <<97, 98>>, <<98>>}
Titles == {"first", "second"}

----------------------------------------------------------------------------
(* checksum.rs *)

\* impl From<ArtifactResponse> for ArtifactMetadata, checksum.rs 46-84
FileMetadata(file) ==
    [ name |-> file.name, filename |-> file.filename, media_type |-> file.media_type,
      hash |-> file.hash, hash_algorithm |-> file.hash_algorithm, url |-> file.url,
      lang |-> file.lang, hidden |-> file.hidden ]

LinkMetadata(link) == [name |-> link.name, url |-> link.url]

ArtifactMetadata(artifact) ==
    [ id |-> artifact.id, url |-> artifact.url, title |-> artifact.title,
      summary |-> artifact.summary, description |-> artifact.description,
      files |-> [i \in 1..Len(artifact.files) |-> FileMetadata(artifact.files[i])],
      links |-> [i \in 1..Len(artifact.links) |-> LinkMetadata(artifact.links[i])],
      people |-> artifact.people, identities |-> artifact.identities,
      from_year |-> artifact.from_year, to_year |-> artifact.to_year,
      decades |-> artifact.decades, collections |-> artifact.collections ]

\* Ord for String: lexicographic on the bytes, which for UTF-8 is
\* lexicographic on the code points
RECURSIVE StrLess(_, _)
StrLess(a, b) ==
    IF b = <<>> THEN FALSE
    ELSE IF a = <<>> THEN TRUE
    ELSE IF a[1] # b[1] THEN a[1] < b[1]
    ELSE StrLess(Tail(a), Tail(b))

\* insert x behind every element whose key is not greater than x's
RECURSIVE InsertByKey(_, _)
InsertByKey(sorted, x) ==
    IF sorted = <<>> THEN <<x>>
    ELSE LET last == sorted[Len(sorted)]
         IN  IF StrLess(x.id, last.id)
             THEN Append(InsertByKey(SubSeq(sorted, 1, Len(sorted) - 1), x), last)
             ELSE Append(sorted, x)

\* slice::sort_by_key(|artifact| artifact.id.clone()): a stable sort, equal
\* keys keep their input order
RECURSIVE sort_by_key(_)
sort_by_key(s) ==
    IF s = <<>> THEN <<>>
    ELSE InsertByKey(sort_by_key(SubSeq(s, 1, Len(s) - 1)), s[Len(s)])

\* serde_json_canonicalizer::to_vec (RFC 8785): an object is its members in
\* the order of their keys, whatever order the struct declares them in; an
\* array keeps its order; None is null.  The canonical text is modelled as
\* the sequence of <<key, value>> members it spells out.
CanonFile(f) ==
    << <<"filename", f.filename>>, <<"hash", f.hash>>,
       <<"hash_algorithm", f.hash_algorithm>>, <<"hidden", f.hidden>>,
       <<"lang", f.lang>>, <<"media_type", f.media_type>>, <<"name", f.name>>,
       <<"url", f.url>> >>

CanonLink(l) == << <<"name", l.name>>, <<"url", l.url>> >>

CanonArtifact(m) ==
    << <<"collections", m.collections>>, <<"decades", m.decades>>,
       <<"description", m.description>>,
       <<"files", [i \in 1..Len(m.files) |-> CanonFile(m.files[i])]>>,
       <<"from_year", m.from_year>>, <<"id", m.id>>, <<"identities", m.identities>>,
       <<"links", [i \in 1..Len(m.links) |-> CanonLink(m.links[i])]>>,
       <<"people", m.people>>, <<"summary", m.summary>>, <<"title", m.title>>,
       <<"to_year", m.to_year>>, <<"url", m.url>> >>

to_vec(object) == [i \in 1..Len(object) |-> CanonArtifact(object[i])]

\* Sha256::digest and hex::encode are not computed: the digest is the
\* canonical text under an injective tag (SHA-256 taken as collision-free),
\* so equal digests mean equal canonical texts.
Sha256(bytes) == [sha256_of |-> bytes]
hex_encode(d) == [lowercase_hex_of |-> d]

\* checksum.rs 86-93; serialization of these types has no failing case
compute_canonicalized_checksum(object) ==
    [ok |-> TRUE, value |-> hex_encode(Sha256(to_vec(object)))]

\* compute_backup_checksum with the sort left out
compute_backup_checksum_unsorted(input) ==
    compute_canonicalized_checksum([i \in 1..Len(input) |-> ArtifactMetadata(input[i])])

\* checksum.rs 107-117
compute_backup_checksum(input) ==
    LET metadata == [i \in 1..Len(input) |-> ArtifactMetadata(input[i])]
        sorted_metadata == sort_by_key(metadata)
    IN  compute_canonicalized_checksum(sorted_metadata)

\* at most this many records are hashed
MaxArtifacts == 3

Catalog == {ArtifactResponse(id, title) : id \in ArtifactIds, title \in Titles}

Collections == UNION {[1..n -> Catalog] : n \in 0..MaxArtifacts}

NoDigest == [ok |-> FALSE, value |-> hex_encode(Sha256(<<>>))]

\* the caller holds a collection of records
CInit ==
    /\ cpc = "start"
    /\ api_response \in Collections
    /\ reordered = api_response
    /\ digest = NoDigest
    /\ digest2 = NoDigest

\* the same records reach the caller in another order
Reorder ==
    /\ cpc = "start"
    /\ \E p \in Permutations(1..Len(api_response)) :
          reordered' = [i \in 1..Len(api_response) |-> api_response[p[i]]]
    /\ cpc' = "reordered"
    /\ UNCHANGED <<api_response, digest, digest2>>
    /\ UNCHANGED <<avars, fvars, vvars>>

\* compute_backup_checksum is applied to both orders
ComputeChecksums ==
    /\ cpc = "reordered"
    /\ digest' = compute_backup_checksum(api_response)
    /\ digest2' = compute_backup_checksum(reordered)
    /\ cpc' = "done"
    /\ UNCHANGED <<api_response, reordered>>
    /\ UNCHANGED <<avars, fvars, vvars>>

CNext ==
    \/ Reorder
    \/ ComputeChecksums

\* the identifiers of a collection are pairwise distinct
DistinctIds(s) == \A i, j \in 1..Len(s) : s[i].id = s[j].id => i = j

\* C5 as stated: for any collection and any reordering of it the digest is
\* the same.
C5_DigestInvariantUnderPermutation ==
    cpc = "done" => digest = digest2

\* C5 amended: for any collection whose identifiers are pairwise distinct and
\* any reordering of it the digest is the same, and it is the digest of the
\* records in ascending order of identifier.
C5_DigestInvariantForDistinctIds ==
    (cpc = "done" /\ DistinctIds(api_response)) =>
        /\ digest.ok /\ digest2.ok
        /\ digest = digest2
        /\ LET text == digest.value.lowercase_hex_of.sha256_of
           IN  /\ Len(text) = Len(api_response)
               /\ \A i \in 1..(Len(text) - 1) : StrLess(text[i][6][2], text[i + 1][6][2])
               /\ {text[i] : i \in 1..Len(text)} =
                     {CanonArtifact(ArtifactMetadata(api_response[i])) :
                        i \in 1..Len(api_response)}

\* C5 witness: three records with distinct identifiers were hashed in two
\* different orders, neither of them ascending.
C5_Witness ==
    /\ cpc = "done"
    /\ Len(api_response) = 3
    /\ DistinctIds(api_response)
    /\ reordered # api_response
    /\ StrLess(api_response[2].id, api_response[1].id)
    /\ StrLess(reordered[3].id, reordered[2].id)

----------------------------------------------------------------------------
(* api.rs: fetch_artifacts_page and fetch_all_artifacts *)

ARTIFACTS_PAGE_SIZE == 50

\* at most this many page requests are issued: the upstream source ends the
\* catalog no later than on this page
MaxPages == 3

\* the logs `requests` and `responses` keep the latest LogCap entries
LogCap == MaxPages + 1
Log(log, x) == IF Len(log) < LogCap THEN Append(log, x) ELSE Append(Tail(log), x)

Ok(v) == [ok |-> TRUE, value |-> v]
Err == [ok |-> FALSE, value |-> <<>>]

\* the query parameters that never carry the cursor
PageParams_NoCursor(c) == [limit |-> ARTIFACTS_PAGE_SIZE, cursor |-> None]

\* api.rs 49-53: the query parameters of a page request
PageParams(c) ==
    [limit |-> ARTIFACTS_PAGE_SIZE, cursor |-> IF IsSome(c) THEN Some(c[1]) ELSE None]

\* What can come back for a page request.  Either the transport fails and
\* `send().await` is an error, or a response arrives: a status, and a body
\* that is a well-formed ArtifactsResponse or is not.
TransportFailure ==
    [kind |-> "transport_error", status |-> 0, wellformed |-> FALSE,
     items |-> <<>>, next_cursor |-> None]

Response(st, wf, items, next) ==
    [kind |-> "response", status |-> st, wellformed |-> wf,
     items |-> items, next_cursor |-> next]

\* api.rs 57-61: `send().await?` fails on a transport error only (fetch
\* resolves with a response whatever its status; the status is not read),
\* and `.json::<ArtifactsResponse>().await` fails iff the body does not
\* deserialize.  The value is the Result of fetch_artifacts_page.
fetch_artifacts_page(reply) ==
    IF reply.kind = "transport_error" THEN Err
    ELSE IF ~reply.wellformed THEN Err
    ELSE Ok([items |-> reply.items, next_cursor |-> reply.next_cursor])

Statuses == {200, 500}
Cursors == {"c1", "c2"}

\* the pages hold up to two records of the catalog
PageItems ==
    LET a == ArtifactResponse(<<98>>, "first")
        b == ArtifactResponse(<<97>>, "second")
    IN  {<<>>, <<a>>, <<b>>, <<b, a>>}

\* api.rs 65-66
StartFetch ==
    /\ fpc = "idle"
    /\ all_artifacts' = <<>>
    /\ cursor' = None
    /\ fpc' = "loop"
    /\ UNCHANGED <<requests, responses, inflight, fresult>>
    /\ UNCHANGED <<avars, cvars, vvars>>

\* api.rs 69, 49-58: the request for the next page is sent
SendPageRequest ==
    /\ fpc = "loop"
    /\ requests' = Log(requests, PageParams(cursor))
    /\ inflight' = inflight + 1
    /\ fpc' = "awaiting"
    /\ UNCHANGED <<cursor, all_artifacts, responses, fresult>>
    /\ UNCHANGED <<avars, cvars, vvars>>

\* HandleReply for a loop that also ends when the cursor returned is the one
\* just sent
HandleReply_StopOnRepeat(reply) ==
    LET result == fetch_artifacts_page(reply)
    IN  /\ responses' = Log(responses, reply)
        /\ inflight' = inflight - 1
        /\ IF ~result.ok
           THEN /\ fresult' = Some(Err)
                /\ fpc' = "error"
                /\ UNCHANGED <<cursor, all_artifacts>>
           ELSE /\ all_artifacts' = all_artifacts \o result.value.items
                /\ IF IsSome(result.value.next_cursor) /\ result.value.next_cursor # cursor
                   THEN /\ cursor' = Some(result.value.next_cursor[1])
                        /\ fpc' = "loop"
                        /\ fresult' = fresult
                   ELSE /\ cursor' = cursor
                        /\ fpc' = "done"
                        /\ fresult' = Some(Ok(all_artifacts'))
        /\ UNCHANGED requests

\* api.rs 69-77, continued from the await: the reply is turned into a
\* Result; `?` returns its error from fetch_all_artifacts, otherwise the
\* items are appended and the loop goes on or ends on the cursor
HandleReply(reply) ==
    LET result == fetch_artifacts_page(reply)
    IN  /\ responses' = Log(responses, reply)
        /\ inflight' = inflight - 1
        /\ IF ~result.ok
           THEN /\ fresult' = Some(Err)
                /\ fpc' = "error"
                /\ UNCHANGED <<cursor, all_artifacts>>
           ELSE /\ all_artifacts' = all_artifacts \o result.value.items
                /\ IF IsSome(result.value.next_cursor)
                   THEN /\ cursor' = Some(result.value.next_cursor[1])
                        /\ fpc' = "loop"
                        /\ fresult' = fresult
                   ELSE /\ cursor' = cursor
                        /\ fpc' = "done"
                        /\ fresult' = Some(Ok(all_artifacts'))
        /\ UNCHANGED requests

\* the transport fails
TransportError ==
    /\ fpc = "awaiting"
    /\ HandleReply(TransportFailure)
    /\ UNCHANGED <<avars, cvars, vvars>>

\* a response arrives whose body is no ArtifactsResponse
MalformedBody ==
    /\ fpc = "awaiting"
    /\ \E st \in Statuses : HandleReply(Response(st, FALSE, <<>>, None))
    /\ UNCHANGED <<avars, cvars, vvars>>

\* a response arrives whose body is a page that names a next cursor
PageWithCursor ==
    /\ fpc = "awaiting"
    /\ Len(requests) < MaxPages
    /\ \E st \in Statuses, items \in PageItems, c \in Cursors :
          HandleReply(Response(st, TRUE, items, Some(c)))
    /\ UNCHANGED <<avars, cvars, vvars>>

\* a response arrives whose body is a page without a next cursor
LastPage ==
    /\ fpc = "awaiting"
    /\ \E st \in Statuses, items \in PageItems :
          HandleReply(Response(st, TRUE, items, None))
    /\ UNCHANGED <<avars, cvars, vvars>>

\* a response arrives whose body is an empty page that names a next cursor,
\* from an upstream source that never ends its cursor chain
EndlessPage ==
    /\ fpc = "awaiting"
    /\ \E st \in Statuses, c \in Cursors : HandleReply(Response(st, TRUE, <<>>, Some(c)))
    /\ UNCHANGED <<avars, cvars, vvars>>

FNext ==
    \/ StartFetch
    \/ SendPageRequest
    \/ TransportError
    \/ MalformedBody
    \/ PageWithCursor
    \/ LastPage

FIdle ==
    /\ fpc = "idle"
    /\ cursor = None
    /\ all_artifacts = <<>>
    /\ requests = <<>>
    /\ responses = <<>>
    /\ inflight = 0
    /\ fresult = None

CIdle ==
    /\ cpc = "idle"
    /\ api_response = <<>>
    /\ reordered = <<>>
    /\ digest = NoDigest
    /\ digest2 = NoDigest

----------------------------------------------------------------------------
(* Claims about fetch_all_artifacts *)

\* a reply that deserialized into a page
IsPage(r) == r.kind = "response" /\ r.wellformed

\* the items of the replies 1..n, one page after the other
RECURSIVE ItemsUpTo(_, _)
ItemsUpTo(rs, n) == IF n = 0 THEN <<>> ELSE ItemsUpTo(rs, n - 1) \o rs[n].items

\* C3: the first request carries no cursor; each later request carries the
\* cursor of the reply just before it; at most one request is in flight; no
\* request follows a page without next_cursor; and the value returned is the
\* items of all pages received, in the order the pages arrived.
C3_SequentialCursorChain ==
    /\ inflight \in {0, 1}
    /\ inflight = Len(requests) - Len(responses)
    /\ \A i \in 1..Len(requests) :
          /\ requests[i].limit = 50
          /\ i = 1 => requests[i].cursor = None
          /\ i > 1 => /\ IsPage(responses[i - 1])
                      /\ IsSome(responses[i - 1].next_cursor)
                      /\ requests[i].cursor = responses[i - 1].next_cursor
    /\ \A i \in 1..Len(responses) :
          (IsPage(responses[i]) /\ ~IsSome(responses[i].next_cursor)) =>
              /\ Len(requests) = i
              /\ fpc = "done"
    /\ fpc = "done" =>
          /\ \A i \in 1..Len(responses) : IsPage(responses[i])
          /\ ~IsSome(responses[Len(responses)].next_cursor)
          /\ fresult = Some(Ok(ItemsUpTo(responses, Len(responses))))
    /\ (IsSome(fresult) /\ fresult[1].ok) => fpc = "done"

\* C3 witness: three pages were fetched, the first two naming different
\* cursors, and the fetch returned their five items.
C3_Witness ==
    /\ fpc = "done"
    /\ Len(responses) = 3
    /\ responses[1].next_cursor = Some("c2")
    /\ responses[2].next_cursor = Some("c1")
    /\ Len(responses[1].items) = 2
    /\ Len(responses[2].items) = 1
    /\ Len(fresult[1].value) = 5

\* a page request that failed, in the words of the claim
RequestFailed(r) ==
    \/ r.kind = "transport_error"
    \/ r.status \notin 200..299
    \/ ~r.wellformed

\* C4: when a page request fails (transport error, non-success status or
\* malformed body) the fetch returns an error: that reply is the last one, no
\* request follows it, and no collection is returned.
C4_AnyFailureAbortsFetch ==
    \A i \in 1..Len(responses) :
        RequestFailed(responses[i]) =>
            /\ Len(responses) = i
            /\ Len(requests) = i
            /\ fpc = "error"
            /\ fresult = Some(Err)

Terminated == fpc \in {"done", "error"}

\* a reply that ends the loop: the page request returned an error, or the
\* page names no next cursor
Ends(r) == ~IsPage(r) \/ ~IsSome(r.next_cursor)

----------------------------------------------------------------------------
(* The specifications *)

Init == AInit /\ FIdle /\ CIdle /\ VIdle
Next == ANext
Spec == Init /\ [][Next]_vars

InitChecksum == AInit /\ FIdle /\ CInit /\ VIdle
NextChecksum == CNext
SpecChecksum == InitChecksum /\ [][NextChecksum]_vars

InitFetch == AInit /\ FIdle /\ CIdle /\ VIdle
NextFetch == FNext
SpecFetch == InitFetch /\ [][NextFetch]_vars

\* fetch_all_artifacts against an upstream that may go on returning cursors
\* for ever.  The future is polled until it returns (StartFetch,
\* SendPageRequest), and every request gets some reply.
NextFetchLive ==
    \/ StartFetch
    \/ SendPageRequest
    \/ TransportError
    \/ MalformedBody
    \/ LastPage
    \/ EndlessPage
SpecFetchLive ==
    /\ InitFetch
    /\ [][NextFetchLive]_vars
    /\ WF_vars(StartFetch)
    /\ WF_vars(SendPageRequest)
    /\ WF_vars(TransportError \/ MalformedBody \/ LastPage \/ EndlessPage)

InitValidate == AInit /\ FIdle /\ CIdle /\ VInit
NextValidate == Validate
SpecValidate == InitValidate /\ [][NextValidate]_vars

====
